---- MODULE Spec2Model ----
(***************************************************************************)
(* Model of src/src/ner/main.py: perform_ner_analysis, the single NER      *)
(* pipeline  load -> annotate -> extract(native) -> extract(custom) ->     *)
(* merge -> summarize -> render.                                           *)
(*                                                                         *)
(* A text is modelled by the token sequence the annotator's tokenizer      *)
(* yields for it; a token is [text, ws] (raw text, trailing whitespace     *)
(* width), so character offsets are computed from the token texts.        *)
(* A DataFrame is [columns, rows]: the set of column labels and the        *)
(* sequence of rows in positional order.                                   *)
(***************************************************************************)
EXTENDS Integers, Sequences, FiniteSets, TLC

VARIABLES
    sample_text,      \* the document the caller analyses (token sequence)
    model_ents,       \* the spans the installed model recognises in sample_text
    quicksort_ties,   \* how this build's quicksort leaves rows with equal keys
    calls,            \* number of calls of perform_ner_analysis started
    pc,               \* position inside perform_ner_analysis, "idle" outside it
    text,             \* argument text of the current / last call
    model_name,       \* argument model_name of the current / last call
    nlp,              \* local nlp
    doc,              \* local doc
    entities,         \* local entities
    custom_entities,  \* local custom_entities
    all_entities,     \* local all_entities
    type_summary,     \* local type_summary
    html,             \* local html
    raised,           \* exception that ended the call, or None
    result,           \* returned dict, or None
    history           \* what the first call that returned got, or None

vars == <<sample_text, model_ents, quicksort_ties, calls, pc, text, model_name,
          nlp, doc, entities, custom_entities, all_entities, type_summary,
          html, raised, result, history>>

\* Python's None, for the slots that hold a string (raised, nlp, Description).
None == "None"

\* A local that holds a structure is unbound ( << >> ) or bound ( << value >> ).
Unbound == << >>

Bound(v) == << v >>

Val(slot) == slot[1]

\* ------------------------------------------------------------------ bounds
MaxTokens == 2
MaxNative == 1
MaxEntLen == 1
MaxCalls == 2

\* ------------------------------------------------- the annotator (spaCy)
InstalledModels == {"en_core_web_sm"}

ModelNames == {"en_core_web_sm", "does-not-exist"}

\* Token texts of the bounded documents: an upper-case literal, the two
\* tokens of a two-token pattern (neither matches alone), a member of the
\* IN set, and a token the first regex matches.  Which tokens a text is cut
\* into is the tokenizer's business; the pipeline sees tokens only.
Vocab == {"WHO", "energy", "ladder", "PM2.5", "25µg/m3"}

\* Labels of the model's own recognizer used in the bounded documents.
NativeLabels == {"ORG", "GPE"}

Tok(t, w) == [text |-> t, ws |-> w]

\* "Kenya relies on charcoal and biomass."
KenyaText ==
    << Tok("Kenya", 1), Tok("relies", 1), Tok("on", 1), Tok("charcoal", 1),
       Tok("and", 1), Tok("biomass", 0), Tok(".", 0) >>

\* token.lower_ : the lowercase form of the raw token text.
LowerIdentity(t) == t
Lower(t) ==
    CASE t = "WHO" -> "who"
      [] t = "PM2.5" -> "pm2.5"
      [] t = "Kenya" -> "kenya"
      [] OTHER -> t

\* re.search(regex, token.text) for the two regular expressions of the table.
RegexSearch(regex, t) ==
    CASE regex = "\\d+\\s*µg/m3" -> t \in {"25µg/m3"}
      [] regex = "\\d+\\s*gigatons" -> t \in {}
      [] OTHER -> FALSE

\* spacy.explain(label)
Explain(label) ==
    CASE label = "ORG" -> "Companies, agencies, institutions, etc."
      [] label = "GPE" -> "Countries, cities, states"
      [] OTHER -> None

\* token.idx : character offset of token i (1-based token index).
RECURSIVE Idx(_, _)
Idx(tokens, i) ==
    IF i = 1 THEN 0
    ELSE Idx(tokens, i - 1) + Len(tokens[i - 1].text) + tokens[i - 1].ws

\* span.start_char / span.end_char / span.text of doc[s:e], tokens s..e-1.
StartChar(tokens, s) == Idx(tokens, s)

EndChar(tokens, e) == Idx(tokens, e - 1) + Len(tokens[e - 1].text)

RECURSIVE SpanText(_, _, _)
SpanText(tokens, s, e) ==
    IF s = e - 1 THEN tokens[s].text
    ELSE tokens[s].text \o (IF tokens[s].ws = 1 THEN " " ELSE "")
         \o SpanText(tokens, s + 1, e)

\* ------------------------------------------- custom pattern table (data)
L(w) == [attr |-> "LOWER", op |-> "EQ", val |-> w]

LIn(ws) == [attr |-> "LOWER", op |-> "IN", val |-> ws]

TRegex(re) == [attr |-> "TEXT", op |-> "REGEX", val |-> re]

custom_patterns ==
    << << "ORG",
          << << L("who") >>,
             << L("world"), L("health"), L("organization") >>,
             << L("ihme") >>,
             << L("fao") >>,
             << L("unep") >>,
             << L("iea") >>,
             << L("nasa") >>,
             << L("health"), L("effects"), L("institute") >> >> >>,
       << "RESEARCH_CONCEPT",
          << << L("energy"), L("ladder") >>,
             << L("energy"), L("poverty") >>,
             << L("indoor"), L("air"), L("pollution") >>,
             << L("improved"), L("cook"), L("stoves") >>,
             << L("particulate"), L("matter") >>,
             << LIn({"pm2.5", "pm10"}) >> >> >>,
       << "ENERGY_SOURCE",
          << << L("biomass") >>,
             << L("fuelwood") >>,
             << L("charcoal") >>,
             << L("coal") >>,
             << L("liquefied"), L("petroleum"), L("gas") >>,
             << L("crop"), L("waste") >>,
             << L("dried"), L("dung") >> >> >>,
       << "HEALTH_CONDITION",
          << << L("pneumonia") >>,
             << L("copd") >>,
             << L("chronic"), L("obstructive"), L("pulmonary"), L("disease") >>,
             << L("lung"), L("cancer") >>,
             << L("cataracts") >>,
             << L("burns") >>,
             << L("stillbirths") >> >> >>,
       << "GEOG",
          << << L("sub-saharan"), L("africa") >>,
             << L("africa") >>,
             << L("asia") >>,
             << L("latin"), L("america") >>,
             << L("kenya") >>,
             << L("china") >>,
             << L("india") >>,
             << L("rome") >>,
             << L("delhi") >> >> >>,
       << "MEASUREMENT",
          << << L("micrograms"), L("per"), L("cubic"), L("metre") >>,
             << TRegex("\\d+\\s*µg/m3") >>,
             << TRegex("\\d+\\s*gigatons") >> >> >> >>

\* ----------------------------------------------- the Matcher (spaCy)
\* One token constraint of a pattern against one token.
TokenMatches(c, tok) ==
    CASE c.op = "EQ" -> Lower(tok.text) = c.val
      [] c.op = "IN" -> Lower(tok.text) \in c.val
      [] c.op = "REGEX" -> RegexSearch(c.val, tok.text)
      [] OTHER -> FALSE

\* A pattern against the token run doc[s:e].
PatternMatches(p, tokens, s, e) ==
    /\ Len(p) = e - s
    /\ \A k \in 1..Len(p) : TokenMatches(p[k], tokens[s + k - 1])

\* (match_id, start, end) triples; the matcher reports a triple once.
MatchSet(tokens) ==
    { m \in (1..Len(custom_patterns)) \X (1..Len(tokens)) \X (2..(Len(tokens) + 1)) :
        /\ m[2] < m[3]
        /\ \E i \in 1..Len(custom_patterns[m[1]][2]) :
              PatternMatches(custom_patterns[m[1]][2][i], tokens, m[2], m[3]) }

\* Matches are reported as the scan reaches their last token; runs that
\* end on the same token come in order of start, then of rule.
MatchKey(m, n) ==
    (m[3] * (n + 2) + m[2]) * (Len(custom_patterns) + 1) + m[1]

RECURSIVE SeqByKey(_, _)
SeqByKey(S, n) ==
    IF S = {} THEN << >>
    ELSE LET m == CHOOSE x \in S : \A y \in S : MatchKey(x, n) <= MatchKey(y, n)
         IN  << m >> \o SeqByKey(S \ {m}, n)

Matcher(tokens) == SeqByKey(MatchSet(tokens), Len(tokens))

\* nlp.vocab.strings[match_id]
VocabStrings(match_id) == custom_patterns[match_id][1]

\* ----------------------------------------------- entity rows
NativeEntity(tokens, ent) ==
    [ Text |-> SpanText(tokens, ent.start, ent.end),
      Start |-> StartChar(tokens, ent.start),
      End |-> EndChar(tokens, ent.end),
      Type |-> ent.label,
      Description |-> Explain(ent.label) ]

CustomEntityTokenIndex(tokens, m) ==
    [ Text |-> SpanText(tokens, m[2], m[3]),
      Start |-> m[2] - 1,
      End |-> m[3] - 1,
      Type |-> VocabStrings(m[1]),
      Description |-> "Custom entity" ]

CustomEntity(tokens, m) ==
    [ Text |-> SpanText(tokens, m[2], m[3]),
      Start |-> StartChar(tokens, m[2]),
      End |-> EndChar(tokens, m[3]),
      Type |-> VocabStrings(m[1]),
      Description |-> "Custom entity" ]

\* ----------------------------------------------- pandas
EntityColumns == {"Text", "Start", "End", "Type", "Description"}

\* pd.DataFrame(list of dicts): an empty list gives a frame without columns.
DataFrame(rows) ==
    [ columns |-> IF rows = << >> THEN {} ELSE EntityColumns, rows |-> rows ]

RECURSIVE DropDuplicateSpans(_)
DropDuplicateSpans(rows) ==
    IF rows = << >> THEN << >>
    ELSE LET init == DropDuplicateSpans(SubSeq(rows, 1, Len(rows) - 1))
             last == rows[Len(rows)]
         IN  IF \E i \in 1..Len(init) :
                    init[i].Start = last.Start /\ init[i].End = last.End
             THEN init ELSE Append(init, last)

ConcatDedup(a, b) ==
    [ columns |-> a.columns \cup b.columns,
      rows |-> DropDuplicateSpans(a.rows \o b.rows) ]

\* pd.concat([a, b], ignore_index=True)
Concat(a, b) ==
    [ columns |-> a.columns \cup b.columns, rows |-> a.rows \o b.rows ]

Reverse(s) == [ i \in 1..Len(s) |-> s[Len(s) + 1 - i] ]

\* ndarray.argsort(kind="quicksort"): the positions of keys in ascending
\* order of key.  Quicksort is not a stable sort: where equal keys end up
\* relative to each other depends on the build; "kept" and "swapped" are
\* the two outcomes modelled.
RECURSIVE Argsort(_, _, _)
Argsort(keys, n, ties) ==
    IF n = 0 THEN << >>
    ELSE LET prev == Argsort(keys, n - 1, ties)
             before == IF ties = "kept"
                       THEN Cardinality({ p \in 1..Len(prev) : keys[prev[p]] <= keys[n] })
                       ELSE Cardinality({ p \in 1..Len(prev) : keys[prev[p]] < keys[n] })
         IN  SubSeq(prev, 1, before) \o << n >> \o SubSeq(prev, before + 1, Len(prev))

\* pandas nargsort: descending order reverses before and after the argsort.
Nargsort(keys, ascending, ties) ==
    IF ascending THEN Argsort(keys, Len(keys), ties)
    ELSE LET n == Len(keys)
             rev == Argsort(Reverse(keys), n, ties)
         IN  Reverse([ i \in 1..n |-> n + 1 - rev[i] ])

Take(rows, indexer) == [ i \in 1..Len(indexer) |-> rows[indexer[i]] ]

SortValuesUnsorted(df, by, ties) == df

\* DataFrame.sort_values(by); callers check that by is a column.
SortValues(df, by, ties) ==
    [ columns |-> df.columns,
      rows |-> Take(df.rows,
                    Nargsort([ i \in 1..Len(df.rows) |-> df.rows[i][by] ], TRUE, ties)) ]

\* Distinct values of a column in order of first appearance.
RECURSIVE Unique(_)
Unique(s) ==
    IF s = << >> THEN << >>
    ELSE LET init == Unique(SubSeq(s, 1, Len(s) - 1))
             last == s[Len(s)]
         IN  IF \E i \in 1..Len(init) : init[i] = last THEN init ELSE Append(init, last)

SummaryRow(t, c) == ("Entity Type" :> t) @@ ("Count" :> c)

ValueCountsDistinctText(df, ties) ==
    LET types == Unique([ i \in 1..Len(df.rows) |-> df.rows[i].Type ])
        counts == [ k \in 1..Len(types) |->
                      Cardinality({ df.rows[i].Text : i \in
                          { j \in 1..Len(df.rows) : df.rows[j].Type = types[k] } }) ]
        indexer == Nargsort(counts, FALSE, ties)
    IN  [ k \in 1..Len(types) |-> SummaryRow(types[indexer[k]], counts[indexer[k]]) ]

\* all_entities["Type"].value_counts().reset_index() with the two columns
\* renamed: one row per distinct Type, sorted by descending count.
ValueCounts(df, ties) ==
    LET types == Unique([ i \in 1..Len(df.rows) |-> df.rows[i].Type ])
        counts == [ k \in 1..Len(types) |->
                      Cardinality({ i \in 1..Len(df.rows) : df.rows[i].Type = types[k] }) ]
        indexer == Nargsort(counts, FALSE, ties)
    IN  [ k \in 1..Len(types) |-> SummaryRow(types[indexer[k]], counts[indexer[k]]) ]

\* displacy.render(doc, style="ent", page=True): an opaque markup string.
Render(d) == [ page |-> TRUE, style |-> "ent", tokens |-> d.tokens, ents |-> d.ents ]

\* ----------------------------------------------- inputs
Spans(tokens) ==
    { sp \in [ start : 1..Len(tokens), end : 2..(Len(tokens) + 1), label : NativeLabels ] :
        sp.start < sp.end /\ sp.end - sp.start <= MaxEntLen }

\* doc.ents: non-overlapping spans in order of position.
EntChoices(tokens) ==
    UNION { { ents \in [ 1..k -> Spans(tokens) ] :
                \A i \in 1..(k - 1) : ents[i].end <= ents[i + 1].start } :
            k \in 0..MaxNative }

Docs ==
    UNION { [ 1..n -> { Tok(v, 1) : v \in Vocab } ] : n \in 0..MaxTokens }

\* nlp(text): the annotator is deterministic; a text without tokens has no
\* entities.
Nlp(t) ==
    [ tokens |-> t, ents |-> IF t = sample_text THEN model_ents ELSE << >> ]

\* ----------------------------------------------- perform_ner_analysis
Init ==
    /\ sample_text \in Docs \cup { KenyaText }
    /\ model_ents \in EntChoices(sample_text)
    /\ quicksort_ties \in { "kept", "swapped" }
    /\ calls = 0
    /\ pc = "idle"
    /\ text = << >>
    /\ model_name = "en_core_web_sm"
    /\ nlp = None
    /\ doc = Unbound
    /\ entities = Unbound
    /\ custom_entities = Unbound
    /\ all_entities = Unbound
    /\ type_summary = Unbound
    /\ html = Unbound
    /\ raised = None
    /\ result = Unbound
    /\ history = Unbound

world == << sample_text, model_ents, quicksort_ties >>

\* A caller enters perform_ner_analysis(t, m) with a fresh frame.
Call(t, m) ==
    /\ pc = "idle"
    /\ calls < MaxCalls
    /\ calls' = calls + 1
    /\ text' = t
    /\ model_name' = m
    /\ pc' = "load"
    /\ nlp' = None
    /\ doc' = Unbound
    /\ entities' = Unbound
    /\ custom_entities' = Unbound
    /\ all_entities' = Unbound
    /\ type_summary' = Unbound
    /\ html' = Unbound
    /\ raised' = None
    /\ result' = Unbound
    /\ UNCHANGED << world, history >>

LoadModelUnchecked ==
    /\ pc = "load"
    /\ nlp' = model_name
    /\ pc' = "process"
    /\ UNCHANGED << world, calls, text, model_name, doc, entities, custom_entities,
                    all_entities, type_summary, html, raised, result, history >>

\* 1. Load model
LoadModel ==
    /\ pc = "load"
    /\ IF model_name \in InstalledModels
       THEN /\ nlp' = model_name
            /\ pc' = "process"
            /\ UNCHANGED raised
       ELSE /\ raised' = "ImportError"
            /\ pc' = "idle"
            /\ UNCHANGED nlp
    /\ UNCHANGED << world, calls, text, model_name, doc, entities, custom_entities,
                    all_entities, type_summary, html, result, history >>

\* 2. Process document
Process ==
    /\ pc = "process"
    /\ doc' = Bound(Nlp(text))
    /\ pc' = "extract"
    /\ UNCHANGED << world, calls, text, model_name, nlp, entities, custom_entities,
                    all_entities, type_summary, html, raised, result, history >>

ExtractStandardShared ==
    /\ pc = "extract"
    /\ entities' = Bound((IF history = Unbound THEN << >> ELSE Val(history).entities)
                         \o [ i \in 1..Len(Val(doc).ents) |->
                                NativeEntity(Val(doc).tokens, Val(doc).ents[i]) ])
    /\ pc' = "match"
    /\ UNCHANGED << world, calls, text, model_name, nlp, doc, custom_entities,
                    all_entities, type_summary, html, raised, result, history >>

\* 3. Extract standard entities
ExtractStandard ==
    /\ pc = "extract"
    /\ entities' = Bound([ i \in 1..Len(Val(doc).ents) |->
                             NativeEntity(Val(doc).tokens, Val(doc).ents[i]) ])
    /\ pc' = "match"
    /\ UNCHANGED << world, calls, text, model_name, nlp, doc, custom_entities,
                    all_entities, type_summary, html, raised, result, history >>

\* 4. Add custom entity patterns
MatchCustom ==
    /\ pc = "match"
    /\ LET matches == Matcher(Val(doc).tokens)
       IN  custom_entities' = Bound([ i \in 1..Len(matches) |->
                                        CustomEntity(Val(doc).tokens, matches[i]) ])
    /\ pc' = "combine"
    /\ UNCHANGED << world, calls, text, model_name, nlp, doc, entities,
                    all_entities, type_summary, html, raised, result, history >>

\* 5. Combine all entities
Combine ==
    /\ pc = "combine"
    /\ LET frame == IF Val(custom_entities) # << >>
                    THEN Concat(DataFrame(Val(entities)), DataFrame(Val(custom_entities)))
                    ELSE DataFrame(Val(entities))
       IN  IF "Start" \in frame.columns
           THEN /\ all_entities' = Bound(SortValues(frame, "Start", quicksort_ties))
                /\ pc' = "summarize"
                /\ UNCHANGED raised
           ELSE /\ raised' = "KeyError"
                /\ pc' = "idle"
                /\ UNCHANGED all_entities
    /\ UNCHANGED << world, calls, text, model_name, nlp, doc, entities, custom_entities,
                    type_summary, html, result, history >>

\* 6. Summarize by entity type
Summarize ==
    /\ pc = "summarize"
    /\ type_summary' = Bound(ValueCounts(Val(all_entities), quicksort_ties))
    /\ pc' = "render"
    /\ UNCHANGED << world, calls, text, model_name, nlp, doc, entities, custom_entities,
                    all_entities, html, raised, result, history >>

\* 7. Generate visualization HTML
Visualize ==
    /\ pc = "render"
    /\ html' = Bound(Render(Val(doc)))
    /\ pc' = "return"
    /\ UNCHANGED << world, calls, text, model_name, nlp, doc, entities, custom_entities,
                    all_entities, type_summary, raised, result, history >>

Return ==
    /\ pc = "return"
    /\ result' = Bound([ doc |-> Val(doc),
                         all_entities |-> Val(all_entities),
                         type_summary |-> Val(type_summary),
                         visualization_html |-> Val(html) ])
    /\ history' = IF history = Unbound
                  THEN Bound([ call |-> calls, text |-> text, model_name |-> model_name,
                               entities |-> Val(entities),
                               all_entities |-> Val(all_entities),
                               type_summary |-> Val(type_summary) ])
                  ELSE history
    /\ pc' = "idle"
    /\ UNCHANGED << world, calls, text, model_name, nlp, doc, entities, custom_entities,
                    all_entities, type_summary, html, raised >>

Next ==
    \/ \E t \in { sample_text, << >> }, m \in ModelNames : Call(t, m)
    \/ LoadModel
    \/ Process
    \/ ExtractStandard
    \/ MatchCustom
    \/ Combine
    \/ Summarize
    \/ Visualize
    \/ Return

Spec == Init /\ [][Next]_vars

\* ----------------------------------------------- properties
Returned == result # Unbound

Rows == Val(result).all_entities.rows

Summary == Val(result).type_summary

\* entities followed by custom_entities: the order of the concatenation.
Concatenated == Val(entities) \o Val(custom_entities)

Occurrences(seq, x) == Cardinality({ i \in 1..Len(seq) : seq[i] = x })

RECURSIVE SumCounts(_)
SumCounts(summ) ==
    IF summ = << >> THEN 0
    ELSE summ[Len(summ)]["Count"] + SumCounts(SubSeq(summ, 1, Len(summ) - 1))

FirstRowOfType(t) == CHOOSE i \in 1..Len(Rows) :
    Rows[i].Type = t /\ \A j \in 1..(i - 1) : Rows[j].Type # t

\* C1: in every returned result for a non-empty text, the rows of
\* all_entities are in ascending order of Start.
C1_SortedByStart ==
    (Returned /\ text # << >>) =>
        \A i \in 1..(Len(Rows) - 1) : Rows[i].Start <= Rows[i + 1].Start

\* A result was returned whose concatenation was out of order: a custom
\* entity starts before a native one.
C1_Witness ==
    /\ Returned
    /\ \E i \in 1..Len(Concatenated) : \E j \in (i + 1)..Len(Concatenated) :
          Concatenated[i].Start > Concatenated[j].Start

\* C2: a call with a model name that is not installed ends with the one
\* ImportError; it never gets past the load step and binds no doc,
\* entities, all_entities, type_summary, html or result.
C2_MissingModelRaises ==
    (calls > 0 /\ model_name \notin InstalledModels) =>
        /\ pc \in { "load", "idle" }
        /\ pc = "idle" => raised = "ImportError"
        /\ nlp = None
        /\ doc = Unbound
        /\ entities = Unbound
        /\ custom_entities = Unbound
        /\ all_entities = Unbound
        /\ type_summary = Unbound
        /\ html = Unbound
        /\ result = Unbound

\* A call with the missing model has ended, after an earlier call returned.
C2_Witness ==
    /\ pc = "idle"
    /\ model_name = "does-not-exist"
    /\ raised = "ImportError"
    /\ history # Unbound

\* C3: a call on the empty text with an installed model completes without
\* error and returns an empty all_entities, an empty type_summary and a
\* rendered visualization.
C3_EmptyTextReturnsEmpty ==
    (pc = "idle" /\ calls > 0 /\ text = << >> /\ model_name \in InstalledModels) =>
        /\ raised = None
        /\ Returned
        /\ Rows = << >>
        /\ Summary = << >>
        /\ html # Unbound

\* C4: in every returned result the counts of type_summary sum to the
\* number of rows of all_entities, every summary row counts the rows of its
\* Type, and every Type of a row has a summary row.
C4_CountsMatchRows ==
    Returned =>
        /\ SumCounts(Summary) = Len(Rows)
        /\ \A k \in 1..Len(Summary) :
              Summary[k]["Count"] =
                  Cardinality({ i \in 1..Len(Rows) : Rows[i].Type = Summary[k]["Entity Type"] })
        /\ \A i \in 1..Len(Rows) :
              \E k \in 1..Len(Summary) : Summary[k]["Entity Type"] = Rows[i].Type

\* A result with several types, one of them counted more than once.
C4_Witness ==
    /\ Returned
    /\ Len(Summary) >= 2
    /\ \E k \in 1..Len(Summary) : Summary[k]["Count"] >= 2

RunSatisfies(r, tokens, s, e) ==
    \E i \in 1..Len(custom_patterns[r][2]) :
        PatternMatches(custom_patterns[r][2][i], tokens, s, e)

ExpectedCustom(r, tokens, s, e) ==
    [ Text |-> SpanText(tokens, s, e),
      Start |-> Idx(tokens, s),
      End |-> Idx(tokens, e - 1) + Len(tokens[e - 1].text),
      Type |-> custom_patterns[r][1],
      Description |-> "Custom entity" ]

\* C6: once the custom entities are extracted, every rule and token run
\* that satisfies one of the rule's matchers has exactly one custom entity
\* with the rule's label, the run's Text/Start/End and the description
\* "Custom entity", and every custom entity comes from such a rule and run.
C6_CustomEntitiesAreMatches ==
    custom_entities # Unbound =>
        LET tokens == Val(doc).tokens
            ce == Val(custom_entities)
            runs == { x \in (1..Len(custom_patterns)) \X (1..Len(tokens))
                                \X (2..(Len(tokens) + 1)) : x[2] < x[3] }
        IN  /\ \A x \in runs :
                  RunSatisfies(x[1], tokens, x[2], x[3]) =>
                      Occurrences(ce, ExpectedCustom(x[1], tokens, x[2], x[3])) = 1
            /\ \A k \in 1..Len(ce) :
                  \E x \in runs :
                      /\ RunSatisfies(x[1], tokens, x[2], x[3])
                      /\ ce[k] = ExpectedCustom(x[1], tokens, x[2], x[3])

\* The custom entities hold a literal match on an upper-case token and a
\* regex match, the second not at offset 0.
C6_Witness ==
    /\ custom_entities # Unbound
    /\ \E k \in 1..Len(Val(custom_entities)) :
          Val(custom_entities)[k].Text = "WHO" /\ Val(custom_entities)[k].Type = "ORG"
    /\ \E k \in 1..Len(Val(custom_entities)) :
          Val(custom_entities)[k].Type = "MEASUREMENT" /\ Val(custom_entities)[k].Start > 0

IsCustom(row) == row.Description = "Custom entity"

\* C7: for "Kenya relies on charcoal and biomass." the custom entities of
\* the result are Kenya (GEOG), charcoal (ENERGY_SOURCE) and biomass
\* (ENERGY_SOURCE), in this order in all_entities.
C7_KenyaExample ==
    (Returned /\ text = KenyaText) =>
        SelectSeq(Rows, IsCustom) =
            << [ Text |-> "Kenya", Start |-> 0, End |-> 5, Type |-> "GEOG",
                 Description |-> "Custom entity" ],
               [ Text |-> "charcoal", Start |-> 16, End |-> 24, Type |-> "ENERGY_SOURCE",
                 Description |-> "Custom entity" ],
               [ Text |-> "biomass", Start |-> 29, End |-> 36, Type |-> "ENERGY_SOURCE",
                 Description |-> "Custom entity" ] >>

\* The Kenya sentence was analysed and the model found an entity of its own.
C7_Witness ==
    /\ Returned
    /\ text = KenyaText
    /\ Len(Rows) > 3

\* C8: a call that returns for the same text and model name as an earlier
\* call that returned has the same all_entities and the same type_summary.
C8_Deterministic ==
    (Returned /\ history # Unbound
        /\ Val(history).text = text /\ Val(history).model_name = model_name) =>
        /\ Val(result).all_entities = Val(history).all_entities
        /\ Val(result).type_summary = Val(history).type_summary

\* A later call returned after an earlier one did, with native entities.
C8_Witness ==
    /\ Returned
    /\ history # Unbound
    /\ Val(history).call < calls
    /\ Val(history).text = text
    /\ Val(entities) # << >>

\* C9: rows of all_entities with the same Start are in the order of the
\* concatenation (native entities, then custom entities).
C9_StableTies ==
    Returned =>
        \A i \in 1..Len(Rows) : \A j \in (i + 1)..Len(Rows) :
            Rows[i].Start = Rows[j].Start =>
                \E a \in 1..Len(Concatenated) : \E b \in (a + 1)..Len(Concatenated) :
                    Concatenated[a] = Rows[i] /\ Concatenated[b] = Rows[j]

\* C10: type_summary has one row per distinct Type of all_entities, in
\* non-increasing order of Count, equal counts in the order in which the
\* types first occur in all_entities.
C10_SummaryOrder ==
    Returned =>
        /\ { Summary[k]["Entity Type"] : k \in 1..Len(Summary) }
              = { Rows[i].Type : i \in 1..Len(Rows) }
        /\ Len(Summary) = Cardinality({ Rows[i].Type : i \in 1..Len(Rows) })
        /\ \A k \in 1..(Len(Summary) - 1) : Summary[k]["Count"] >= Summary[k + 1]["Count"]
        /\ \A k \in 1..Len(Summary) : \A l \in (k + 1)..Len(Summary) :
              Summary[k]["Count"] = Summary[l]["Count"] =>
                  FirstRowOfType(Summary[k]["Entity Type"])
                      < FirstRowOfType(Summary[l]["Entity Type"])

====
